---- MODULE Spec2Model ----
(***************************************************************************)
(* Model of check.py: the concurrent stream checker.                       *)
(*                                                                         *)
(* check_streams reads the lines of one playlist, submits one              *)
(* process_stream task per line that starts with "http" to a               *)
(* ThreadPoolExecutor, collects the results with as_completed and writes   *)
(* the collected lines to the output file.  process_stream probes its URL  *)
(* with check_url_with_requests, a retry loop around requests.head.        *)
(*                                                                         *)
(* Line indices are 0-based as in the Python source.  live_lines and the   *)
(* results of the futures hold line INDICES; the text that is written is   *)
(* lines[index] (OutText), so that a line of the output can be traced to   *)
(* the input line it was copied from.                                      *)
(***************************************************************************)
EXTENDS Integers, Sequences, FiniteSets, Bags, TLC

\* ------------------------------------------------------------------------
\* Bounds of the model
\* ------------------------------------------------------------------------
MaxLines == 3
MaxEntries == 2
MaxRetries == 2
MaxWorkers == 2

\* ------------------------------------------------------------------------
\* Text of the lines: a line is a Python str, here a name for a sequence of
\* characters (Chars), on which startswith and strip are computed.
\* ------------------------------------------------------------------------
MetaLine == "#EXTINF:-1,A\n"
UrlLine == "http://a.example\n"
IndentedUrlLine == " http://b.example\n"

LineTexts == {MetaLine, UrlLine, IndentedUrlLine}

Chars(s) ==
    CASE s = MetaLine -> <<"#", "E", "X", "T", "I", "N", "F", ":", "-", "1", ",", "A", "\n">>
      [] s = UrlLine -> <<"h", "t", "t", "p", ":", "/", "/", "a", "\n">>
      [] s = IndentedUrlLine -> <<" ", "h", "t", "t", "p", ":", "/", "/", "b", "\n">>

HttpPrefix == <<"h", "t", "t", "p">>

Whitespace == {" ", "\t", "\n", "\r"}

\* str.startswith(prefix)
StartsWith(cs, prefix) ==
    /\ Len(cs) >= Len(prefix)
    /\ SubSeq(cs, 1, Len(prefix)) = prefix

RECURSIVE LStrip(_)
LStrip(cs) ==
    IF cs # <<>> /\ Head(cs) \in Whitespace THEN LStrip(Tail(cs)) ELSE cs

RECURSIVE RStrip(_)
RStrip(cs) ==
    IF cs # <<>> /\ cs[Len(cs)] \in Whitespace
    THEN RStrip(SubSeq(cs, 1, Len(cs) - 1))
    ELSE cs

\* str.strip()
Strip(cs) == RStrip(LStrip(cs))

\* ------------------------------------------------------------------------
\* State
\* ------------------------------------------------------------------------
VARIABLES
    lines,        \* file.readlines(): the input lines
    max_workers,  \* args.threads
    timeout,      \* args.timeout
    verbose,      \* args.verbose
    retries,      \* args.retries
    pc,           \* position of the thread running check_streams
    cursor,       \* next line index the submitting comprehension looks at
    status,       \* per line index: state of its future
    attempts,     \* per line index: requests.head calls its task has made
    verdict,      \* per line index: what check_url_with_requests returned
    result,       \* per line index: what the future holds once finished
    yielded,      \* futures as_completed has handed to the loop
    live_lines,   \* the list collected by check_streams
    outfile,      \* the output file
    console       \* lines printed, as a bag: their order is not modelled

vars == <<lines, max_workers, timeout, verbose, retries, pc, cursor, status,
          attempts, verdict, result, yielded, live_lines,
          outfile, console>>

config == <<lines, max_workers, timeout, verbose, retries>>

\* what the task of each line holds
tasks == <<status, attempts, verdict, result>>

\* ------------------------------------------------------------------------
\* Helpers on the input
\* ------------------------------------------------------------------------
N == Len(lines)

Indices == 0 .. (N - 1)

\* lines[i] with a 0-based index
Line(i) == lines[i + 1]

\* Python list indexing: a negative index counts from the end of the list
PyIndex(i) == IF i < 0 THEN i + N ELSE i

\* the filter of the submitting comprehension: line.startswith("http")
IsSubmitted(i) == StartsWith(Chars(Line(i)), HttpPrefix)

\* the keys of the futures dict once the comprehension has run
Futures == {i \in Indices : IsSubmitted(i)}

\* url = lines[index].strip()
Url(i) == Strip(Chars(Line(i)))

\* ------------------------------------------------------------------------
\* Inputs
\* ------------------------------------------------------------------------
TimeoutValues == {-1, 1}

RECURSIVE SeqsUpTo(_, _)
SeqsUpTo(S, n) ==
    IF n = 0 THEN {<<>>}
    ELSE LET shorter == SeqsUpTo(S, n - 1)
             longest == {r \in shorter : Len(r) = n - 1}
         IN shorter \cup {Append(q, x) : q \in longest, x \in S}

\* the playlists read: at most MaxLines lines, at most MaxEntries of them
\* starting with "http"
Playlists ==
    {q \in SeqsUpTo(LineTexts, MaxLines) :
        Cardinality({k \in 1 .. Len(q) : StartsWith(Chars(q[k]), HttpPrefix)}) <= MaxEntries}

\* the ways one call of requests.head can end: status 200, another status,
\* a requests.RequestException, any other exception
OutcomeKinds == {"ok200", "non200", "transport", "fault"}

\* What one call of requests.head can do.  A timeout <= 0 is rejected by the
\* transport with a ValueError, which is no requests.RequestException; a URL
\* the library refuses is a RequestException.  With a positive timeout the
\* call answers 200, answers another status, or fails at transport level.
Outcomes ==
    IF timeout <= 0 THEN {"transport", "fault"}
    ELSE {"ok200", "non200", "transport"}

\* ------------------------------------------------------------------------
\* Futures
\* ------------------------------------------------------------------------
NoResult == [kind |-> "none", value |-> <<>>]

Returned(v) == [kind |-> "value", value |-> v]

Raised == [kind |-> "exception", value |-> <<>>]

NotWritten == [written |-> FALSE, content |-> <<>>]

Running == {i \in Indices : status[i] = "running"}

Pending == {i \in Indices : status[i] = "pending"}

Init ==
    /\ lines \in Playlists
    /\ max_workers \in 0 .. MaxWorkers
    /\ timeout \in TimeoutValues
    /\ verbose \in BOOLEAN
    /\ retries \in 0 .. MaxRetries
    /\ pc = "open"
    /\ cursor = 0
    /\ status = [i \in Indices |-> "none"]
    /\ attempts = [i \in Indices |-> 0]
    /\ verdict = [i \in Indices |-> "none"]
    /\ result = [i \in Indices |-> NoResult]
    /\ yielded = [i \in Indices |-> 0]
    /\ live_lines = <<>>
    /\ outfile = NotWritten
    /\ console = EmptyBag

\* ------------------------------------------------------------------------
\* check_url_with_requests and process_stream
\* ------------------------------------------------------------------------
\* a loop over range(retries + 2)
LoopRunsTwoMore(attempt) == attempt < retries + 2

\* for attempt in range(retries): the loop body runs for this attempt number
LoopRuns(attempt) == attempt < retries

\* if attempt < retries - 1: continue
IsRetried(attempt) == attempt < retries - 1

\* print(f"Error checking URL: {url} - {e}")
ErrorLine(i, attempt) ==
    IF IsRetried(attempt) THEN EmptyBag ELSE SetToBag({[kind |-> "error", index |-> i]})

\* process_stream with the test on the verdict lost: the pair is returned for
\* a dead URL too
ProcessStreamReturnAlways(i, live) == <<PyIndex(i - 1), i>>

\* process_stream returning the URL line without the line before it
ProcessStreamReturnUrlOnly(i, live) == IF live THEN <<i>> ELSE <<>>

\* the list process_stream returns
ProcessStreamReturn(i, live) ==
    IF live THEN <<PyIndex(i - 1), i>> ELSE <<>>

\* print(f"Live/Valid: {url}") or print(f"Dead/Invalid: {url}"), if verbose
VerboseLine(i, live) ==
    IF verbose
    THEN SetToBag({[kind |-> IF live THEN "live" ELSE "dead", index |-> i]})
    ELSE EmptyBag

\* process_stream returns: the future of line i is done and holds the list
Return(i, live, printed) ==
    /\ status' = [status EXCEPT ![i] = "finished"]
    /\ verdict' = [verdict EXCEPT ![i] = IF live THEN "live" ELSE "dead"]
    /\ result' = [result EXCEPT ![i] = Returned(ProcessStreamReturn(i, live))]
    /\ console' = console (+) printed (+) VerboseLine(i, live)

\* an exception leaves process_stream: the future of line i holds it
Raise(i) ==
    /\ status' = [status EXCEPT ![i] = "finished"]
    /\ result' = [result EXCEPT ![i] = Raised]
    /\ UNCHANGED <<verdict, console>>

\* the retry loop letting the last failure escape instead of returning False
NextAttemptRaises(i, attempt, printed) ==
    IF LoopRuns(attempt + 1)
    THEN /\ console' = console (+) printed
         /\ UNCHANGED <<status, verdict, result>>
    ELSE Raise(i)

\* the loop goes on to the next attempt, or is exhausted and returns False
NextAttempt(i, attempt, printed) ==
    IF LoopRuns(attempt + 1)
    THEN /\ console' = console (+) printed
         /\ UNCHANGED <<status, verdict, result>>
    ELSE Return(i, FALSE, printed)

\* ------------------------------------------------------------------------
\* The executor
\* ------------------------------------------------------------------------
\* a pool that starts one task too many
SlotFreeOffByOne == Cardinality(Running) <= max_workers

\* a pool that keeps one of its workers idle
SlotFreeStarved == Cardinality(Running) < max_workers - 1

\* ThreadPoolExecutor runs at most max_workers tasks at a time
SlotFree == Cardinality(Running) < max_workers

\* the work queue is first in, first out
HeadOfQueue(i) == i \in Pending /\ \A j \in Pending : i <= j

\* as_completed handing out a finished future again
CompletedAgain(i) == i \in Futures /\ status[i] = "finished"

\* as_completed hands out a finished future it has not handed out before
Completed(i) == i \in Futures /\ status[i] = "finished" /\ yielded[i] = 0

\* the for loop ending after the first future
LoopDoneEarly == \E i \in Futures : yielded[i] > 0

\* the for loop over as_completed(futures) has seen every future
LoopDone == \A i \in Futures : yielded[i] > 0

\* shutdown(wait=True): every submitted task has run to its end
AllJoined == Pending = {} /\ Running = {}

\* ------------------------------------------------------------------------
\* Actions
\* ------------------------------------------------------------------------
\* with ThreadPoolExecutor(max_workers=max_workers): the constructor raises
\* ValueError when max_workers <= 0
NewExecutor ==
    /\ pc = "open"
    /\ pc' = IF max_workers <= 0 THEN "raised" ELSE "submit"
    /\ UNCHANGED <<config, cursor, tasks, yielded, live_lines, outfile, console>>

\* the comprehension submits the next line that starts with "http"
Submit(i) ==
    /\ pc = "submit"
    /\ i \in Indices /\ i >= cursor /\ IsSubmitted(i)
    /\ \A j \in cursor .. (i - 1) : ~IsSubmitted(j)
    /\ status' = [status EXCEPT ![i] = "pending"]
    /\ cursor' = i + 1
    /\ UNCHANGED <<config, pc, attempts, verdict, result, yielded,
                   live_lines, outfile, console>>

\* the comprehension is exhausted; the for loop over as_completed begins
EndSubmit ==
    /\ pc = "submit"
    /\ \A j \in cursor .. (N - 1) : ~IsSubmitted(j)
    /\ cursor' = N
    /\ pc' = "collect"
    /\ UNCHANGED <<config, tasks, yielded, live_lines, outfile, console>>

\* a worker takes the task of line i and runs process_stream up to its first
\* request (or to its end, when the loop body never runs)
Start(i) ==
    /\ HeadOfQueue(i)
    /\ SlotFree
    /\ IF LoopRuns(0)
       THEN /\ status' = [status EXCEPT ![i] = "running"]
            /\ UNCHANGED <<verdict, result, console>>
       ELSE Return(i, FALSE, EmptyBag)
    /\ UNCHANGED <<config, pc, cursor, attempts, yielded, live_lines, outfile>>

\* the retry loop never looking at the status code: a 200 answer is one more
\* failed attempt
AttemptIgnoresStatus(i, o) ==
    /\ status[i] = "running"
    /\ o \in Outcomes
    /\ LET attempt == attempts[i] IN
       /\ attempts' = [attempts EXCEPT ![i] = attempt + 1]
       /\ CASE o = "ok200" -> NextAttempt(i, attempt, EmptyBag)
            [] o = "non200" -> NextAttempt(i, attempt, EmptyBag)
            [] o = "transport" -> NextAttempt(i, attempt, ErrorLine(i, attempt))
            [] o = "fault" -> Raise(i)
    /\ UNCHANGED <<config, pc, cursor, yielded, live_lines, outfile>>

\* the retry loop giving up at the first response that is not 200
AttemptNon200Final(i, o) ==
    /\ status[i] = "running"
    /\ o \in Outcomes
    /\ LET attempt == attempts[i] IN
       /\ attempts' = [attempts EXCEPT ![i] = attempt + 1]
       /\ CASE o = "ok200" -> Return(i, TRUE, EmptyBag)
            [] o = "non200" -> Return(i, FALSE, EmptyBag)
            [] o = "transport" -> NextAttempt(i, attempt, ErrorLine(i, attempt))
            [] o = "fault" -> Raise(i)
    /\ UNCHANGED <<config, pc, cursor, yielded, live_lines, outfile>>

\* requests.head of line i's task ends with outcome o; the task runs on to its
\* next request or to its end
Attempt(i, o) ==
    /\ status[i] = "running"
    /\ o \in Outcomes
    /\ LET attempt == attempts[i] IN
       /\ attempts' = [attempts EXCEPT ![i] = attempt + 1]
       /\ CASE o = "ok200" -> Return(i, TRUE, EmptyBag)
            [] o = "non200" -> NextAttempt(i, attempt, EmptyBag)
            [] o = "transport" -> NextAttempt(i, attempt, ErrorLine(i, attempt))
            [] o = "fault" -> Raise(i)
    /\ UNCHANGED <<config, pc, cursor, yielded, live_lines, outfile>>

\* one iteration of the for loop: live_lines.extend(future.result())
Collect(i) ==
    /\ pc = "collect"
    /\ Completed(i)
    /\ yielded' = [yielded EXCEPT ![i] = @ + 1]
    /\ IF result[i].kind = "exception"
       THEN /\ pc' = "unwind"
            /\ UNCHANGED live_lines
       ELSE /\ live_lines' = live_lines \o result[i].value
            /\ UNCHANGED pc
    /\ UNCHANGED <<config, cursor, tasks, outfile, console>>

\* the with block is left, normally or by the exception: shutdown(wait=True)
ExitPool ==
    /\ \/ pc = "collect" /\ LoopDone
       \/ pc = "unwind"
    /\ AllJoined
    /\ pc' = IF pc = "unwind" THEN "raised" ELSE "write"
    /\ UNCHANGED <<config, cursor, tasks, yielded, live_lines, outfile, console>>

\* outfile.writelines(live_lines) and the closing message
Write ==
    /\ pc = "write"
    /\ outfile' = [written |-> TRUE, content |-> live_lines]
    /\ console' = console (+) SetToBag({[kind |-> "saved", index |-> -1]})
    /\ pc' = "done"
    /\ UNCHANGED <<config, cursor, tasks, yielded, live_lines>>

Next ==
    \/ NewExecutor
    \/ \E i \in Indices : Submit(i)
    \/ EndSubmit
    \/ \E i \in Indices : Start(i)
    \/ \E i \in Indices : \E o \in OutcomeKinds : Attempt(i, o)
    \/ \E i \in Indices : Collect(i)
    \/ ExitPool
    \/ Write

Spec == Init /\ [][Next]_vars

\* the runs in which every request fails at transport level
NextUnreachable ==
    \/ NewExecutor
    \/ \E i \in Indices : Submit(i)
    \/ EndSubmit
    \/ \E i \in Indices : Start(i)
    \/ \E i \in Indices : Attempt(i, "transport")
    \/ \E i \in Indices : Collect(i)
    \/ ExitPool
    \/ Write

UnreachableSpec == Init /\ [][NextUnreachable]_vars

\* the text written to the output file
OutText == [k \in 1 .. Len(outfile.content) |-> Line(outfile.content[k])]

\* the runs the claims about termination are about: a valid configuration
\* (ValidConfig below), the thread running check_streams and the workers keep
\* making steps, and every request ends
FairInit == Init /\ max_workers > 0 /\ timeout > 0

FairSpec == FairInit /\ [][Next]_vars /\ WF_vars(Next)

\* ------------------------------------------------------------------------
\* Properties
\* ------------------------------------------------------------------------
\* CheckConfig of the specification: concurrency and timeout are positive
ValidConfig == max_workers > 0 /\ timeout > 0

\* the output is a list of two-line entries: metadata line, URL line
Entries(out) == 1 .. (Len(out) \div 2)

UrlAt(out, k) == out[2 * k]

MetaAt(out, k) == out[2 * k - 1]

\* the task of line i has ended, by a return or by an exception
Ended(i) == status[i] = "finished"

\* the entries of the live URL lines from line index i on, in input order
RECURSIVE InInputOrder(_)
InInputOrder(i) ==
    IF i >= N THEN <<>>
    ELSE (IF i \in Futures /\ verdict[i] = "live"
          THEN <<Line(PyIndex(i - 1)), Line(i)>>
          ELSE <<>>) \o InInputOrder(i + 1)

\* C1: the entries written appear in the order of their URL lines in the
\* input, whatever the order in which the probes completed: the text written
\* is the live entries in input order.
C1_OrderPreserved == outfile.written => OutText = InInputOrder(0)

\* C2: when every attempt fails at transport level, a probe that has ended
\* has made exactly retries + 1 attempts and returned False.
C2_RetryBound ==
    \A i \in Futures :
        Ended(i) => (attempts[i] = retries + 1 /\ verdict[i] = "dead")

\* C3: no failure of a request attempt leaves the probe as an exception: no
\* future holds one and check_streams is never unwound by one.
C3_NeverRaises ==
    /\ \A i \in Indices : result[i].kind # "exception"
    /\ pc # "unwind"

\* C4: once the output is written, it holds the entry of a URL line exactly
\* once if its probe returned live and not at all otherwise; every entry of
\* the output is a probed URL line preceded by the line before it.
C4_Filtering ==
    outfile.written =>
        LET out == outfile.content IN
        /\ Len(out) % 2 = 0
        /\ \A i \in Futures :
              Cardinality({k \in Entries(out) : UrlAt(out, k) = i})
                  = IF verdict[i] = "live" THEN 1 ELSE 0
        /\ \A k \in Entries(out) :
              /\ UrlAt(out, k) \in Futures
              /\ UrlAt(out, k) >= 1 => MetaAt(out, k) = UrlAt(out, k) - 1

\* a dead entry followed by a live one whose metadata line precedes it: the
\* output is exactly the live entry
C4_Witness ==
    /\ outfile.written
    /\ \E i, j \in Futures :
          /\ i < j
          /\ verdict[i] = "dead" /\ attempts[i] > 0
          /\ verdict[j] = "live"
          /\ Line(j - 1) = MetaLine
          /\ outfile.content = <<j - 1, j>>
    /\ OutText = <<MetaLine, UrlLine>>

\* C5: with a valid configuration one task is created for each line that
\* starts with "http" and for no other line, and each task's result is
\* consumed exactly once: none is dropped, none is collected twice.
C5_Completeness ==
    ValidConfig =>
        /\ \A i \in Indices :
              /\ yielded[i] <= 1
              /\ ~IsSubmitted(i) =>
                    (status[i] = "none" /\ yielded[i] = 0 /\ attempts[i] = 0)
        /\ pc \in {"collect", "write", "done"} =>
              \A i \in Futures : status[i] # "none"
        /\ pc \in {"write", "done"} =>
              \A i \in Futures :
                  yielded[i] = 1 /\ result[i].kind = "value" /\ verdict[i] # "none"

\* a finished run over two URL lines and a line that is none
C5_Witness ==
    /\ ValidConfig
    /\ pc = "done"
    /\ Cardinality(Futures) = 2
    /\ Futures # Indices
    /\ \A i \in Futures : yielded[i] = 1

\* the probes in flight never outnumber the workers
InFlightBounded == Cardinality(Running) <= max_workers

\* a submitted task leaves the queue only in a step that finds a slot free
WaitsForSlot ==
    \A i \in Indices :
        (status[i] = "pending" /\ status'[i] # "pending") =>
            Cardinality(Running) < max_workers

\* C6: at most max_workers probes are in flight in any state, and a task
\* submitted while max_workers probes are running waits until a slot is free.
C6_ConcurrencyBound == []InFlightBounded /\ [][WaitsForSlot]_vars

\* every slot is taken and a submitted task waits
C6_Witness ==
    /\ max_workers >= 1
    /\ Cardinality(Running) = max_workers
    /\ Pending # {}

\* C7: the output is written only when every submitted probe has ended and
\* its result has been collected; it holds the lines of all live results.
C7_NoPartialOutput ==
    outfile.written =>
        /\ \A i \in Futures : Ended(i) /\ yielded[i] >= 1
        /\ Running = {} /\ Pending = {}
        /\ Len(outfile.content)
              = 2 * Cardinality({i \in Futures : result[i].value # <<>>})

\* the output written from the results of two probes, one of them live
C7_Witness ==
    /\ outfile.written
    /\ Cardinality(Futures) >= 2
    /\ \E i \in Futures : result[i].value # <<>>
    /\ Len(outfile.content) = 2

\* C8: with max_workers <= 0 or a negative timeout the run fails before any
\* request attempt is made.
C8_ConfigErrorBeforeWork ==
    (max_workers <= 0 \/ timeout < 0) => \A i \in Indices : attempts[i] = 0

\* a step in which the probe of line i returns dead changes nothing of the
\* task of any other line
DeadLeavesSiblings ==
    \A i \in Indices :
        (verdict[i] = "none" /\ verdict'[i] = "dead") =>
            \A j \in Indices \ {i} :
                /\ status'[j] = status[j]
                /\ attempts'[j] = attempts[j]
                /\ verdict'[j] = verdict[j]
                /\ result'[j] = result[j]

\* with a valid configuration the run is never unwound, and at its end every
\* entry has a verdict and every live entry is in the output
NeverAborted ==
    ValidConfig =>
        /\ pc \notin {"unwind", "raised"}
        /\ pc = "done" =>
              \A j \in Futures :
                  /\ verdict[j] # "none"
                  /\ verdict[j] = "live" =>
                        \E k \in Entries(outfile.content) : UrlAt(outfile.content, k) = j

\* C9: a dead URL never aborts the run and never changes what happens to a
\* sibling probe; every other entry is probed to its end and every other
\* live entry is in the output.
C9_FailureIsolation == []NeverAborted /\ [][DeadLeavesSiblings]_vars

\* a finished run in which one probe exhausted its retries and a sibling is
\* live and written
C9_Witness ==
    /\ pc = "done"
    /\ \E i, j \in Futures :
          /\ i # j
          /\ verdict[i] = "dead" /\ attempts[i] = retries /\ retries >= 2
          /\ verdict[j] = "live"
          /\ \E k \in Entries(outfile.content) : UrlAt(outfile.content, k) = j

\* the run has ended with a verdict for every entry and the output written
Terminated ==
    /\ pc = "done"
    /\ outfile.written
    /\ \A i \in Futures : verdict[i] # "none" /\ yielded[i] = 1

\* C10: under fair scheduling every run with a valid configuration (the runs
\* of FairSpec) eventually ends with a result for every entry and the output
\* written.
C10_Termination == <>Terminated

\* a terminated run of two probes on one worker, one of them after retries
C10_Witness ==
    /\ ValidConfig
    /\ Terminated
    /\ max_workers = 1
    /\ Cardinality(Futures) = 2
    /\ \E i \in Futures : attempts[i] > 1

\* the request in flight for line i can be answered with 200, and every such
\* answer ends the call at once with True
ReturnsTrueOn200(i) ==
    /\ ENABLED Attempt(i, "ok200")
    /\ ~ENABLED (/\ Attempt(i, "ok200")
                 /\ ~(/\ attempts'[i] = attempts[i] + 1
                      /\ status'[i] = "finished"
                      /\ verdict'[i] = "live"
                      /\ result'[i].kind = "value"))

\* the call for line i has returned: it issues no request any more
NoFurtherAttempt(i) == \A o \in OutcomeKinds : ~ENABLED Attempt(i, o)

\* C11: whatever attempts came before, a request answered with status 200
\* makes check_url_with_requests return True in that very attempt, and a call
\* that has returned True issues no further attempt; a 200 answer to the
\* first request therefore costs exactly one attempt.
C11_SuccessShortcut ==
    \A i \in Indices :
        /\ (status[i] = "running" /\ timeout > 0) => ReturnsTrueOn200(i)
        /\ verdict[i] = "live" =>
              (Ended(i) /\ attempts[i] >= 1 /\ NoFurtherAttempt(i))

\* a finished run in which one URL answered 200 to its first request, with
\* retries left, and another to its second request
C11_Witness ==
    /\ pc = "done"
    /\ retries >= 2
    /\ \E i, j \in Futures :
          /\ verdict[i] = "live" /\ attempts[i] = 1
          /\ verdict[j] = "live" /\ attempts[j] = 2

\* the call for line i can go, by its request ending with outcome o, to the
\* position s of its loop with verdict v, one attempt further
GoesTo(i, o, s, v) ==
    ENABLED (/\ Attempt(i, o)
             /\ attempts'[i] = attempts[i] + 1
             /\ status'[i] = s
             /\ verdict'[i] = v)

\* C12: in every state of a call with a request in flight, a non-200 answer
\* and a transport failure take the call to the same place: the same number
\* of attempts made, the loop going on or ended alike, the same boolean
\* returned. Replacing one by the other anywhere in a sequence of outcomes
\* therefore changes neither the attempts made nor the verdict.
C12_Non200LikeTransport ==
    \A i \in Indices :
        (status[i] = "running" /\ timeout > 0) =>
            /\ ENABLED Attempt(i, "non200")
            /\ \A s \in {"running", "finished"} :
                  \A v \in {"none", "live", "dead"} :
                      GoesTo(i, "non200", s, v) <=> GoesTo(i, "transport", s, v)
            /\ ~ENABLED (/\ Attempt(i, "non200")
                         /\ status'[i] \notin {"running", "finished"})

\* two calls ended dead after the same number of attempts, one whose last
\* attempt failed at transport level (it printed the error) and one whose
\* last attempt was answered with another status (it printed none)
C12_Witness ==
    /\ retries >= 2
    /\ timeout > 0
    /\ \E i, j \in Futures :
          /\ verdict[i] = "dead" /\ verdict[j] = "dead"
          /\ attempts[i] = retries /\ attempts[j] = retries
          /\ BagIn([kind |-> "error", index |-> i], console)
          /\ ~BagIn([kind |-> "error", index |-> j], console)

\* the lines for which a task was created
Probed == {i \in Indices : status[i] # "none"}

\* the lines whose text, leading and trailing whitespace removed, begins
\* with "http"
TrimmedUrlLines == {i \in Indices : StartsWith(Url(i), HttpPrefix)}

\* C13: once the comprehension has run, the lines probed are exactly the
\* lines whose trimmed text begins with "http", and while it runs the lines
\* probed so far are exactly those of them before the cursor (one entry per
\* such line, in input order).
C13_EntryExtraction ==
    max_workers > 0 =>
        /\ pc = "submit" => Probed = {i \in TrimmedUrlLines : i < cursor}
        /\ pc \in {"collect", "write", "done"} => Probed = TrimmedUrlLines

\* C14: a URL line at index 0 has no metadata line: it is skipped or the run
\* ends with an error. No output is written in which the entry of line 0
\* appears, with the last line of the file (index -1) or any other line
\* written as its metadata.
C14_FirstLineHandled ==
    outfile.written =>
        \A k \in Entries(outfile.content) : UrlAt(outfile.content, k) # 0

\* the text of a list of line indices
TextOf(out) == [k \in 1 .. Len(out) |-> Line(out[k])]

\* the line sequence collected when the loop takes the result of line i next
\* and the result of line j after it
TakenInOrder(i, j) == TextOf(live_lines \o result[i].value \o result[j].value)

\* C15: runs over the same lines with the same verdicts write the same line
\* sequence whatever the completion order: when the results of two probes
\* both await collection, the loop may take either first (two runs that
\* differ in nothing else), and the lines collected must be the same.
C15_Deterministic ==
    \A i, j \in Futures :
        (/\ pc = "collect"
         /\ i # j
         /\ Completed(i) /\ result[i].kind = "value"
         /\ Completed(j) /\ result[j].kind = "value") =>
            TakenInOrder(i, j) = TakenInOrder(j, i)

\* the console lines that probing line i has printed
ProbeLines(i) == {m \in BagToSet(console) : m.index = i}

\* C16: probing prints nothing when verbose is off; when it is on, the only
\* line printed for a URL is its one Live/Dead status line.
C16_OnlyStatusLine ==
    \A i \in Indices :
        /\ ~verbose => ProbeLines(i) = {}
        /\ verbose =>
              \A m \in ProbeLines(i) :
                  m.kind \in {"live", "dead"} /\ CopiesIn(m, console) = 1

\* C17: whatever the outcomes, a call with retries = r has issued at most
\* r + 1 requests in any state, and a call that has issued r + 1 requests
\* holds no worker any more.
C17_AttemptBound ==
    \A i \in Indices :
        /\ attempts[i] <= retries + 1
        /\ status[i] = "running" => attempts[i] < retries + 1

\* on a single worker one call has used every attempt the loop allows and
\* ended, and the worker runs the next call
C17_Witness ==
    /\ max_workers = 1
    /\ retries >= 2
    /\ \E i, j \in Futures :
          /\ Ended(i) /\ attempts[i] = retries /\ verdict[i] = "dead"
          /\ status[j] = "running" /\ attempts[j] >= 1

\* C18: in every state live_lines is a concatenation of whole pairs
\* [lines[i - 1], lines[i]] (Python indexing), each the result of a probed
\* URL line whose future the loop has taken, no entry twice: no pair is
\* half-written and no two pairs are interleaved, while other probes are
\* still running.
C18_PairAtomicity ==
    /\ Len(live_lines) % 2 = 0
    /\ \A k \in Entries(live_lines) :
          LET i == UrlAt(live_lines, k) IN
          /\ i \in Futures
          /\ MetaAt(live_lines, k) = PyIndex(i - 1)
          /\ Ended(i) /\ yielded[i] >= 1 /\ verdict[i] = "live"
          /\ \A l \in Entries(live_lines) : UrlAt(live_lines, l) = i => l = k
    /\ \A i \in Futures :
          (yielded[i] >= 1 /\ verdict[i] = "live") =>
              \E k \in Entries(live_lines) : UrlAt(live_lines, k) = i

\* one pair has been collected while another probe, which has already made
\* an attempt, is still running on a second worker
C18_Witness ==
    /\ pc = "collect"
    /\ max_workers >= 2
    /\ Len(live_lines) = 2
    /\ \E j \in Running : attempts[j] >= 1

\* C19: once the output is written, every line of it that starts with "http"
\* is the line of a URL whose probe returned live: no line of a dead URL is
\* in the output, be it as the metadata line of the entry that follows it.
C19_NoDeadUrlWritten ==
    outfile.written =>
        \A k \in 1 .. Len(outfile.content) :
            LET i == outfile.content[k] IN
            StartsWith(Chars(Line(i)), HttpPrefix) => verdict[i] = "live"

====
